---- MODULE Spec2Model ----
(***************************************************************************)
(* Model of the MRO data mirror: MRODataAPI.download_date_data and          *)
(* MRODataAPI.list_available_days (scripts/mro_api.py) and the command      *)
(* line front end of the former (scripts/download_fits_v2.py).              *)
(*                                                                          *)
(* One call of download_date_data is the main coroutine (pc) plus one       *)
(* coroutine per listed file (tpc).  An action is one atomic stretch of a   *)
(* coroutine between two suspension points of the asyncio event loop.       *)
(* The server and the arguments of the call are fixed in Init and never     *)
(* change; the local directory (fs) is changed by the fetches only.         *)
(* File sizes are counted in chunks.                                        *)
(***************************************************************************)
EXTENDS Integers, Sequences, FiniteSets, TLC

\* ---------------------------------------------------------------- bounds
\* Longest listing the server returns.
MaxFiles == 2
\* Size of every file on the server, in chunks of chunk_size bytes.
FileChunks == 1

\* ------------------------------------------------------------ the inputs
\* hrefs a listing may hold.  urljoin(date_url, BadName) raises ValueError
\* ("Invalid IPv6 URL"), the two others join to a file URL.
GoodNames == {"a.fits", "b.fits"}
BadName == "http://[x.fits"
Names == GoodNames \cup {BadName}

\* The --max-concurrent values of a well-formed call, and the rejected ones.
GateWidths == {1, 2, 5, 50}
BadWidths == {0 - 1, 0}

\* Dates as sequences of characters.
Digits == {"0", "1", "2", "3", "4", "5", "6", "7", "8", "9"}
GoodDate == <<"2", "0", "2", "5", "0", "7", "0", "4">>
ShortDate == <<"2", "0", "2", "5", "0", "7", "0">>
AlphaDate == <<"2", "0", "2", "5", "0", "7", "0", "a">>
NewlineDate == <<"2", "0", "2", "5", "0", "7", "0", "4", "\n">>
BadDates == {ShortDate, AlphaDate, NewlineDate}

\* Exactly 8 decimal digits.
IsDate(d) == Len(d) = 8 /\ \A k \in 1..8 : d[k] \in Digits

\* re.match(r'^\d{8}$', date): "$" also matches before a final newline.
MatchDate(d) ==
    /\ Len(d) \in {8, 9}
    /\ \A k \in 1..8 : d[k] \in Digits
    /\ Len(d) = 9 => d[9] = "\n"

\* hrefs of the page at base_url, as sequences of characters.
Slash == "/"
ParentLink == <<".", ".", "/">>
DayLink == <<"2", "0", "2", "5", "0", "7", "0", "4", "/">>
EarlierDayLink == <<"2", "0", "2", "4", "1", "2", "3", "1", "/">>
DoubleSlashLink == <<"2", "0", "2", "5", "0", "7", "0", "4", "/", "/">>
ShortLink == <<"2", "0", "2", "5", "0", "7", "0", "/">>
AlphaLink == <<"2", "0", "2", "5", "0", "7", "0", "a", "/">>
FileLink == <<"2", "0", "2", "5", "0", "7", "0", "4">>
NoHref == <<>>
\* "^2" stands for the one character U+00B2 (superscript two), for which
\* str.isdigit() is True and which sorts after "9".
Superscript == "^2"
SuperscriptLink == <<"2", "0", "2", "5", "0", "7", "0", Superscript, "/">>
Hrefs == {ParentLink, DayLink, EarlierDayLink, DoubleSlashLink, ShortLink,
          AlphaLink, FileLink, NoHref, SuperscriptLink}

\* hrefs of the page of one day.
FitsSuffix == <<".", "f", "i", "t", "s">>
FitsLink == <<"a", ".", "f", "i", "t", "s">>
OtherFitsLink == <<"b", ".", "f", "i", "t", "s">>
UpperFitsLink == <<"a", ".", "F", "I", "T", "S">>
FitLink == <<"a", ".", "f", "i", "t">>
FitsDirLink == <<"a", ".", "f", "i", "t", "s", "/">>
FileHrefs == {FitsLink, OtherFitsLink, FitsSuffix, UpperFitsLink, FitLink,
              FitsDirLink, ParentLink, NoHref}

\* An anchor of the page: its href ("" when it has none) and whether it is
\* inside the first <pre> block.
Anchors == [href : Hrefs, pre : BOOLEAN]
FileAnchors == [href : FileHrefs, pre : BOOLEAN]

\* All sequences over S of length at most n.
RECURSIVE SeqsUpTo(_, _)
SeqsUpTo(S, n) ==
    IF n = 0 THEN {<<>>}
    ELSE LET shorter == SeqsUpTo(S, n - 1)
         IN  shorter \cup {Append(s, x) : s \in shorter, x \in S}

Range(s) == {s[k] : k \in 1..Len(s)}

VARIABLES
    entry,          \* "cli": download_fits_v2.main, "api": download_date_data called
                    \* directly, "list": list_available_days called directly,
                    \* "files": get_files_for_date called directly,
                    \* "script": download_fits.download_date_data_async
    date,           \* the date argument
    maxConcurrent,  \* the max_concurrent argument
    force,          \* the force argument
    mkdirOk,        \* can outputDir/date/ be created
    listResp,       \* the server's answer to GET date_url
    files,          \* the hrefs _parse_directory_listing returns for that answer
    srv,            \* per name: the server's answer to HEAD and to GET
    fs,             \* per name: the local file under outputDir/date/
    fs0,            \* fs when the current call started
    dirExists,      \* outputDir/date/ exists
    pc,             \* position of the main coroutine
    run,            \* "first" or "second" call in succession
    sem,            \* value of the asyncio.Semaphore
    waitq,          \* coroutines blocked in semaphore.acquire, oldest first
    tpc,            \* per listed file: position of download_single_file
    tchk,           \* per listed file: what check_file_exists returned
    tres,           \* per listed file: what download_single_file returned
    offs,           \* per listed file: chunks written by its download_file
    net,            \* requests issued by the current call
    result,         \* what the current call returned
    prev,           \* what the first call returned, during the second
    page,           \* the anchors of the page at base_url (or of one day's
                    \* page for get_files_for_date), in document order
    baseResp,       \* the server's answer to the GET of that page
    dates           \* what list_available_days or get_files_for_date
                    \* returned or raised

vars == <<entry, date, maxConcurrent, force, mkdirOk, listResp, files, srv, fs,
          fs0, dirExists, pc, run, sem, waitq, tpc, tchk, tres, offs, net,
          result, prev, page, baseResp, dates>>

args == <<entry, date, maxConcurrent, force>>
env == <<mkdirOk, listResp, files, srv>>
tasks == <<sem, waitq, tpc, tchk, tres, offs>>
lst == <<page, baseResp, dates>>

Tasks == 1..Len(files)

Absent == [exists |-> FALSE, size |-> 0]
File(n) == [exists |-> TRUE, size |-> n]

NoResult == [kind |-> "none", success |-> FALSE, downloaded |-> 0, skipped |-> 0,
             failed |-> 0, total |-> 0, error |-> "none"]
NoTaskResult == [kind |-> "none", success |-> FALSE, reason |-> "none"]
NoCheck == [done |-> FALSE, skip |-> FALSE, reason |-> "none"]
NoNet == [list |-> 0, head |-> 0, get |-> 0]
NoDates == [kind |-> "none", value |-> <<>>, error |-> "none"]

\* A server that answers every request and a directory with no file in it.
Healthy == [head |-> "ok", get |-> "ok"]
\* HEAD: the length, no content-length header, or a failure of any kind.
HeadAnswers == {"ok", "nolen", "fail"}
\* Where the kind of failure matters: "fail" is a transport error, "status"
\* a non-2xx answer whose content-length header is the length of the file.
HeadAnswersByKind == HeadAnswers \cup {"status"}
GetAnswers == {"ok", "status", "broken"}
ListAnswers == {"ok", "request_error", "status_error"}
\* No local file, an empty one (what a broken fetch can leave), a complete
\* one, and one that is longer than the server's.
LocalFiles == {Absent, File(0), File(FileChunks), File(FileChunks + 1)}

\* What the call does not look at is left at one value: the listing when it
\* is never fetched, the names the listing does not hold, the HEAD answer
\* when force is set.
Unobserved(n) == n \notin Range(files) \/ n = BadName

\* The two good names are interchangeable: a listing names a.fits first.
Listings(S) ==
    {l \in SeqsUpTo(S, MaxFiles) :
        \A k \in 1..Len(l) : l[k] = "b.fits" => \E j \in 1..(k - 1) : l[j] = "a.fits"}

InitState ==
    /\ fs0 = fs
    /\ dirExists = (\E n \in Names : fs[n].exists)
    /\ pc = IF entry = "cli" THEN "main"
            ELSE IF entry = "list" THEN "list_call"
            ELSE IF entry = "files" THEN "files_call" ELSE "call"
    /\ run = "first"
    /\ sem = 0
    /\ waitq = <<>>
    /\ tpc = <<>>
    /\ tchk = <<>>
    /\ tres = <<>>
    /\ offs = <<>>
    /\ net = NoNet
    /\ result = NoResult
    /\ prev = NoResult
    /\ dates = NoDates

\* A well-formed call of the API against any server and any local directory.
InitMirror ==
    /\ files \in Listings(Names)
    /\ srv \in [Names -> [head : HeadAnswers, get : GetAnswers]]
    /\ \A n \in Names : Unobserved(n) => srv[n] = Healthy
    /\ fs \in [Names -> LocalFiles]
    /\ \A n \in Names : Unobserved(n) => fs[n] = Absent
    /\ force \in BOOLEAN
    /\ \A n \in Names : force => srv[n].head = "ok"
    /\ mkdirOk \in BOOLEAN
    /\ listResp \in ListAnswers
    /\ (~mkdirOk \/ listResp # "ok") => files = <<>>
    /\ entry = "api"
    /\ date = GoodDate
    /\ maxConcurrent \in GateWidths
    /\ page = <<>>
    /\ baseResp = "ok"
    /\ InitState

\* Any date and any width, from the command line or straight to the API,
\* against a server that answers every request.
InitArgs ==
    /\ entry \in {"cli", "api"}
    /\ date \in {GoodDate} \cup BadDates
    /\ maxConcurrent \in BadWidths \cup {1}
    /\ force = FALSE
    /\ mkdirOk = TRUE
    /\ listResp = "ok"
    /\ files \in Listings(GoodNames)
    /\ srv = [n \in Names |-> Healthy]
    /\ fs \in [Names -> {Absent, File(FileChunks)}]
    /\ \A n \in Names : Unobserved(n) => fs[n] = Absent
    /\ page = <<>>
    /\ baseResp = "ok"
    /\ InitState

\* A call of list_available_days or of get_files_for_date against any page
\* and any answer of the server.
InitList ==
    /\ \/ entry = "list" /\ page \in SeqsUpTo(Anchors, MaxFiles)
       \/ entry = "files" /\ page \in SeqsUpTo(FileAnchors, MaxFiles)
    /\ baseResp \in ListAnswers
    /\ date = GoodDate
    /\ maxConcurrent = 1
    /\ force = FALSE
    /\ mkdirOk = TRUE
    /\ listResp = "ok"
    /\ files = <<>>
    /\ srv = [n \in Names |-> Healthy]
    /\ fs = [n \in Names |-> Absent]
    /\ InitState

Init == InitMirror \/ InitArgs \/ InitList

\* -------------------------------------------------- the directory listing
\* str.endswith and str.rstrip for one character.
EndsWith(s, c) == Len(s) > 0 /\ s[Len(s)] = c

RECURSIVE RStrip(_, _)
RStrip(s, c) ==
    IF EndsWith(s, c) THEN RStrip(SubSeq(s, 1, Len(s) - 1), c) ELSE s

\* str.isdigit for the characters of the model: the ten decimal digits and
\* the superscript.
IsDigit(s) == Len(s) > 0 /\ \A k \in 1..Len(s) : s[k] \in Digits \cup {Superscript}

\* The test of the directories branch on one href.
IsDayHref(h) ==
    /\ h # NoHref
    /\ EndsWith(h, Slash)
    /\ h # ParentLink
    /\ Len(RStrip(h, Slash)) = 8
    /\ IsDigit(RStrip(h, Slash))

\* The order of sorted() on strings of digits: by code point.
DigitVal(c) ==
    CHOOSE k \in 0..10 :
        <<"0", "1", "2", "3", "4", "5", "6", "7", "8", "9", Superscript>>[k + 1] = c

RECURSIVE StrLeq(_, _)
StrLeq(a, b) ==
    IF a = <<>> THEN TRUE
    ELSE IF b = <<>> THEN FALSE
    ELSE IF a[1] = b[1] THEN StrLeq(Tail(a), Tail(b))
    ELSE DigitVal(a[1]) < DigitVal(b[1])

RECURSIVE Insert(_, _)
Insert(s, x) ==
    IF s = <<>> THEN <<x>>
    ELSE IF StrLeq(x, Head(s)) THEN <<x>> \o s
    ELSE <<Head(s)>> \o Insert(Tail(s), x)

RECURSIVE Sorted(_)
Sorted(s) ==
    IF s = <<>> THEN <<>> ELSE Insert(Sorted(SubSeq(s, 1, Len(s) - 1)), s[Len(s)])

\* The anchors of the first <pre> block that name a day, in document order.
RECURSIVE DayNames(_)
DayNames(as) ==
    IF as = <<>> THEN <<>>
    ELSE IF Head(as).pre /\ IsDayHref(Head(as).href)
         THEN <<RStrip(Head(as).href, Slash)>> \o DayNames(Tail(as))
         ELSE DayNames(Tail(as))

\* _parse_directory_listing(html, "directories").
ParseDirectories(pg) == Sorted(DayNames(pg))

\* str.endswith for a suffix of several characters.
EndsWithStr(s, suffix) ==
    /\ Len(s) >= Len(suffix)
    /\ SubSeq(s, Len(s) - Len(suffix) + 1, Len(s)) = suffix

\* The test of the files branch on one href.
IsFitsHrefAnywhere(h) ==
    h # NoHref /\ \E k \in 1..Len(h) : EndsWithStr(SubSeq(h, 1, k), FitsSuffix)
IsFitsHref(h) == h # NoHref /\ EndsWithStr(h, FitsSuffix)

\* _parse_directory_listing(html, "files"): the hrefs of the first <pre>
\* block that end in .fits, in document order.
RECURSIVE ParseFiles(_)
ParseFiles(as) ==
    IF as = <<>> THEN <<>>
    ELSE IF Head(as).pre /\ IsFitsHref(Head(as).href)
         THEN <<Head(as).href>> \o ParseFiles(Tail(as))
         ELSE ParseFiles(Tail(as))

\* ---------------------------------------------------- list_available_days
\* Both except blocks raise again: RequestError for a transport error,
\* Exception for anything else (a non-2xx status among them).
ListFailureEmpty(resp) == [kind |-> "list", value |-> <<>>, error |-> "none"]
ListFailure(resp) ==
    [kind |-> "raised", value |-> <<>>,
     error |-> IF resp = "request_error" THEN "RequestError" ELSE "Exception"]

\* Entry: request the page at base_url.
ListStart ==
    /\ pc = "list_call"
    /\ net' = [net EXCEPT !.list = @ + 1]
    /\ pc' = "list_wait"
    /\ UNCHANGED <<args, env, fs, fs0, dirExists, run, tasks, result, prev, lst>>

\* The answer arrives: the sorted day names, or the failure is raised.
ListAnswer ==
    /\ pc = "list_wait"
    /\ dates' = IF baseResp = "ok"
                THEN [kind |-> "list", value |-> ParseDirectories(page), error |-> "none"]
                ELSE ListFailure(baseResp)
    /\ pc' = IF dates'.kind = "list" THEN "list_returned" ELSE "list_raised"
    /\ UNCHANGED <<args, env, fs, fs0, dirExists, run, tasks, net, result, prev,
                   page, baseResp>>

\* ----------------------------------------------------- get_files_for_date
\* Entry: request the page of the day.
FilesStart ==
    /\ pc = "files_call"
    /\ net' = [net EXCEPT !.list = @ + 1]
    /\ pc' = "files_wait"
    /\ UNCHANGED <<args, env, fs, fs0, dirExists, run, tasks, result, prev, lst>>

\* The answer arrives: the file names in document order, or the failure is
\* raised as in list_available_days.
FilesAnswer ==
    /\ pc = "files_wait"
    /\ dates' = IF baseResp = "ok"
                THEN [kind |-> "list", value |-> ParseFiles(page), error |-> "none"]
                ELSE ListFailure(baseResp)
    /\ pc' = IF dates'.kind = "list" THEN "files_returned" ELSE "files_raised"
    /\ UNCHANGED <<args, env, fs, fs0, dirExists, run, tasks, net, result, prev,
                   page, baseResp>>

\* ------------------------------------------------------------ the results
ErrorResultVacuous(msg) ==
    [kind |-> "dict", success |-> TRUE, downloaded |-> 0, skipped |-> 0,
     failed |-> 0, total |-> 0, error |-> msg]

\* The dict of the "no files" return and of the two except blocks.
ErrorResult(msg) ==
    [kind |-> "dict", success |-> FALSE, downloaded |-> 0, skipped |-> 0,
     failed |-> 0, total |-> 0, error |-> msg]

\* The loop over the gathered results: a tuple is counted, anything else
\* cannot be unpacked and the loop raises TypeError at that item.
RECURSIVE Tally(_, _, _)
Tally(res, k, acc) ==
    IF k > Len(res) THEN acc
    ELSE IF res[k].kind # "tuple" THEN [acc EXCEPT !.raised = TRUE]
    ELSE IF res[k].success
         THEN IF res[k].reason = "downloaded"
              THEN Tally(res, k + 1, [acc EXCEPT !.downloaded = @ + 1])
              ELSE Tally(res, k + 1, [acc EXCEPT !.skipped = @ + 1])
         ELSE Tally(res, k + 1, [acc EXCEPT !.failed = @ + 1])

Counts(res) ==
    Tally(res, 1, [downloaded |-> 0, skipped |-> 0, failed |-> 0, raised |-> FALSE])

SuccessFlag(failed) == failed = 0

GatherResult(res) ==
    LET c == Counts(res)
    IN  IF c.raised THEN ErrorResult("TypeError")
        ELSE [kind |-> "dict", success |-> SuccessFlag(c.failed),
              downloaded |-> c.downloaded, skipped |-> c.skipped,
              failed |-> c.failed, total |-> Len(res), error |-> "none"]

\* ---------------------------------------------------------- the front end
\* download_fits_v2.main: validate the arguments, then call the API.
MainValidate ==
    /\ pc = "main"
    /\ pc' = IF ~MatchDate(date) \/ maxConcurrent < 1 THEN "exit1" ELSE "call"
    /\ UNCHANGED <<args, env, lst, fs, fs0, dirExists, run, tasks, net, result, prev>>

\* main after the call: the exit status.
MainExit ==
    /\ entry = "cli"
    /\ pc \in {"returned", "raised"}
    /\ pc' = IF pc = "returned" /\ result.success THEN "exit0" ELSE "exit1"
    /\ UNCHANGED <<args, env, lst, fs, fs0, dirExists, run, tasks, net, result, prev>>

\* ------------------------------------------------------ download_date_data
CallStartUnguarded ==
    /\ pc = "call"
    /\ dirExists' = mkdirOk
    /\ net' = [net EXCEPT !.list = @ + 1]
    /\ pc' = "listing"
    /\ UNCHANGED <<args, env, lst, fs, fs0, run, tasks, result, prev>>

\* Entry: create outputDir/date/ and request the listing.  A failing mkdir
\* is outside the try block and leaves the call as an exception.
CallStart ==
    /\ pc = "call"
    /\ IF mkdirOk
       THEN /\ dirExists' = TRUE
            /\ net' = [net EXCEPT !.list = @ + 1]
            /\ pc' = "listing"
            /\ result' = result
       ELSE /\ pc' = "raised"
            /\ result' = [NoResult EXCEPT !.kind = "raised", !.error = "OSError"]
            /\ UNCHANGED <<dirExists, net>>
    /\ UNCHANGED <<args, env, lst, fs, fs0, run, tasks, prev>>

\* asyncio.Semaphore(value) raises ValueError for a negative value.
SemaphoreRaises(width) == width < 0

\* The listing answer arrives: an error dict, the "no files" dict, or the
\* per-file coroutines are created and gathered.
ListingResponse ==
    /\ entry # "script"
    /\ pc = "listing"
    /\ IF listResp = "request_error"
       THEN /\ result' = ErrorResult("RequestError")
            /\ pc' = "returned"
            /\ UNCHANGED tasks
       ELSE IF listResp = "status_error"
       THEN /\ result' = ErrorResult("HTTPStatusError")
            /\ pc' = "returned"
            /\ UNCHANGED tasks
       ELSE IF files = <<>>
       THEN /\ result' = ErrorResult("No FITS files found")
            /\ pc' = "returned"
            /\ UNCHANGED tasks
       ELSE IF SemaphoreRaises(maxConcurrent)
       THEN /\ result' = ErrorResult("ValueError")
            /\ pc' = "returned"
            /\ UNCHANGED tasks
       ELSE /\ sem' = maxConcurrent
            /\ waitq' = <<>>
            /\ tpc' = [i \in Tasks |-> "start"]
            /\ tchk' = [i \in Tasks |-> NoCheck]
            /\ tres' = [i \in Tasks |-> NoTaskResult]
            /\ offs' = [i \in Tasks |-> 0]
            /\ pc' = "gather"
            /\ result' = result
    /\ UNCHANGED <<args, env, lst, fs, fs0, dirExists, run, net, prev>>
\* ------------------------------------------------- download_single_file
\* filename, the loop variable each coroutine is created with: the URL and
\* the local path are both made from it.
NameLast(i) == files[Len(files)]
Name(i) == files[i]

\* urljoin(date_url, filename) raises for this href.
UrlJoinRaises(n) == n = BadName

\* The content-length the HEAD answer carries; a missing header reads as 0.
ContentLength(n) == IF srv[n].head = "ok" THEN FileChunks ELSE 0

\* check_file_exists once the HEAD answer is there.
SizeMatchesAlways(expected, actual) == TRUE
SizeMatches(expected, actual) == expected > 0 /\ actual = expected

ProbeResultTrusting(n) ==
    IF srv[n].head = "fail" \/ SizeMatches(ContentLength(n), fs[n].size)
    THEN [done |-> TRUE, skip |-> TRUE, reason |-> "already exists"]
    ELSE [done |-> TRUE, skip |-> FALSE, reason |-> "incomplete file"]

ProbeResult(n) ==
    IF srv[n].head \in {"fail", "status"} \/ ~fs[n].exists
    THEN [done |-> TRUE, skip |-> FALSE, reason |-> "could not verify"]
    ELSE IF SizeMatches(ContentLength(n), fs[n].size)
    THEN [done |-> TRUE, skip |-> TRUE, reason |-> "already exists"]
    ELSE [done |-> TRUE, skip |-> FALSE, reason |-> "incomplete file"]

\* check_file_exists before any request: no probe for a missing file or a
\* forced call.
NeedsProbeNever(n) == FALSE
NeedsProbe(n) == ~(~fs[n].exists \/ force)

\* Semaphore.acquire returns at once when a slot is free.
SlotFreeAlways == TRUE
SlotFree == sem > 0

\* async with semaphore, then download_file issues its GET; with no free
\* slot the coroutine queues up.
Enter(i) ==
    IF SlotFree
    THEN /\ sem' = sem - 1
         /\ tpc' = [tpc EXCEPT ![i] = "get"]
         /\ waitq' = waitq
    ELSE /\ waitq' = Append(waitq, i)
         /\ tpc' = [tpc EXCEPT ![i] = "wait"]
         /\ sem' = sem

LeaveKeepsSlot(j) ==
    /\ tpc' = [tpc EXCEPT ![j] = "done"]
    /\ waitq' = waitq
    /\ sem' = sem

\* Leaving the async with block: the slot goes to the oldest waiter, or
\* back to the semaphore.  j is the coroutine that leaves.
Leave(j) ==
    IF waitq # <<>>
    THEN /\ tpc' = [tpc EXCEPT ![j] = "done", ![Head(waitq)] = "granted"]
         /\ waitq' = Tail(waitq)
         /\ sem' = sem
    ELSE /\ tpc' = [tpc EXCEPT ![j] = "done"]
         /\ waitq' = waitq
         /\ sem' = sem + 1

TaskTuple(ok, why) == [kind |-> "tuple", success |-> ok, reason |-> why]
TaskRaised == [kind |-> "exception", success |-> FALSE, reason |-> "ValueError"]

\* The event loop runs the first stretch of every coroutine, in listing
\* order, before it delivers any answer.
AllStarted == \A j \in Tasks : tpc[j] # "start"

\* First stretch of download_single_file: join the URL, look at the local
\* file, then either probe with HEAD or go for the gate.
TaskStart(i) ==
    /\ pc = "gather"
    /\ tpc[i] = "start"
    /\ \A j \in 1..(i - 1) : tpc[j] # "start"
    /\ IF UrlJoinRaises(Name(i))
       THEN /\ tpc' = [tpc EXCEPT ![i] = "done"]
            /\ tres' = [tres EXCEPT ![i] = TaskRaised]
            /\ UNCHANGED <<sem, waitq, tchk, net>>
       ELSE IF NeedsProbe(Name(i))
       THEN /\ tpc' = [tpc EXCEPT ![i] = "head"]
            /\ net' = [net EXCEPT !.head = @ + 1]
            /\ UNCHANGED <<sem, waitq, tchk, tres>>
       ELSE /\ tchk' = [tchk EXCEPT ![i] = [done |-> TRUE, skip |-> FALSE, reason |-> "none"]]
            /\ Enter(i)
            /\ net' = IF SlotFree THEN [net EXCEPT !.get = @ + 1] ELSE net
            /\ tres' = tres
    /\ UNCHANGED <<args, env, lst, fs, fs0, dirExists, pc, run, offs, result, prev>>

\* "if should_skip: return filename, True, reason".
ShouldSkipNever(chk) == FALSE
ShouldSkip(chk) == chk.skip

\* The HEAD answer arrives: skip, or go for the gate.
TaskHead(i) ==
    /\ entry # "script"
    /\ pc = "gather"
    /\ AllStarted
    /\ tpc[i] = "head"
    /\ tchk' = [tchk EXCEPT ![i] = ProbeResult(Name(i))]
    /\ IF ShouldSkip(ProbeResult(Name(i)))
       THEN /\ tpc' = [tpc EXCEPT ![i] = "done"]
            /\ tres' = [tres EXCEPT ![i] = TaskTuple(TRUE, ProbeResult(Name(i)).reason)]
            /\ UNCHANGED <<sem, waitq, net>>
       ELSE /\ Enter(i)
            /\ net' = IF SlotFree THEN [net EXCEPT !.get = @ + 1] ELSE net
            /\ tres' = tres
    /\ UNCHANGED <<args, env, lst, fs, fs0, dirExists, pc, run, offs, result, prev>>

\* A waiter that was handed a slot runs again and download_file issues its GET.
TaskResume(i) ==
    /\ pc = "gather"
    /\ tpc[i] = "granted"
    /\ tpc' = [tpc EXCEPT ![i] = "get"]
    /\ net' = [net EXCEPT !.get = @ + 1]
    /\ UNCHANGED <<args, env, lst, fs, fs0, dirExists, pc, run, sem, waitq, tchk,
                   tres, offs, result, prev>>

\* response.raise_for_status() raises for a non-2xx answer.
StatusRaisesNever(n) == FALSE
StatusRaises(n) == srv[n].get = "status"

\* open(local_path, 'wb'): the file is created, or emptied when it exists.
OpenKeeps(f) == IF f.exists THEN f ELSE File(0)
OpenWB(f) == File(0)

\* The GET answer arrives: a non-2xx status fails the fetch and leaves the
\* file alone, otherwise open(local_path, 'wb') creates or empties it.
TaskGet(i) ==
    /\ pc = "gather"
    /\ AllStarted
    /\ tpc[i] = "get"
    /\ IF StatusRaises(Name(i))
       THEN /\ tres' = [tres EXCEPT ![i] = TaskTuple(FALSE, "failed")]
            /\ Leave(i)
            /\ UNCHANGED <<fs, offs>>
       ELSE /\ fs' = [fs EXCEPT ![Name(i)] = OpenWB(fs[Name(i)])]
            /\ offs' = [offs EXCEPT ![i] = 0]
            /\ tpc' = [tpc EXCEPT ![i] = "write"]
            /\ UNCHANGED <<sem, waitq, tres>>
    /\ UNCHANGED <<args, env, lst, fs0, dirExists, pc, run, tchk, net, result, prev>>

\* f.write(chunk) at the coroutine's own file position.
WrittenLost(size, pos) == size
Written(size, pos) == IF pos + 1 > size THEN pos + 1 ELSE size

\* One more chunk of the body arrives and is written; after the last one
\* the fetch returns True.
TaskChunk(i) ==
    /\ pc = "gather"
    /\ tpc[i] = "write"
    /\ offs[i] < FileChunks
    /\ srv[Name(i)].get = "broken" => offs[i] + 1 < FileChunks
    /\ fs' = [fs EXCEPT ![Name(i)] = File(Written(fs[Name(i)].size, offs[i]))]
    /\ offs' = [offs EXCEPT ![i] = @ + 1]
    /\ IF offs[i] + 1 = FileChunks
       THEN /\ tres' = [tres EXCEPT ![i] = TaskTuple(TRUE, "downloaded")]
            /\ Leave(i)
       ELSE UNCHANGED <<sem, waitq, tpc, tres>>
    /\ UNCHANGED <<args, env, lst, fs0, dirExists, pc, run, tchk, net, result, prev>>

TaskBreakSwallowed(i) ==
    /\ pc = "gather"
    /\ tpc[i] = "write"
    /\ srv[Name(i)].get = "broken"
    /\ tres' = [tres EXCEPT ![i] = TaskTuple(TRUE, "downloaded")]
    /\ Leave(i)
    /\ UNCHANGED <<args, env, lst, fs, fs0, dirExists, pc, run, tchk, offs, net,
                   result, prev>>

\* The body stream breaks before its last chunk: the fetch returns False
\* and the file keeps what was written.
TaskBreak(i) ==
    /\ pc = "gather"
    /\ tpc[i] = "write"
    /\ srv[Name(i)].get = "broken"
    /\ tres' = [tres EXCEPT ![i] = TaskTuple(FALSE, "failed")]
    /\ Leave(i)
    /\ UNCHANGED <<args, env, lst, fs, fs0, dirExists, pc, run, tchk, offs, net,
                   result, prev>>

\* gather returns when every coroutine is done; the results are counted.
GatherDone ==
    /\ entry # "script"
    /\ pc = "gather"
    /\ \A i \in Tasks : tpc[i] = "done"
    /\ result' = GatherResult(tres)
    /\ pc' = "returned"
    /\ UNCHANGED <<args, env, lst, fs, fs0, dirExists, run, tasks, net, prev>>

\* The same call once more, against the same server and the directory as
\* the first call left it.
Rerun ==
    /\ entry = "api"
    /\ pc = "returned"
    /\ run = "first"
    /\ run' = "second"
    /\ prev' = result
    /\ result' = NoResult
    /\ fs0' = fs
    /\ net' = NoNet
    /\ pc' = "call"
    /\ sem' = 0
    /\ waitq' = <<>>
    /\ tpc' = <<>>
    /\ tchk' = <<>>
    /\ tres' = <<>>
    /\ offs' = <<>>
    /\ UNCHANGED <<args, env, lst, fs, dirExists>>

Next ==
    \/ MainValidate
    \/ MainExit
    \/ CallStart
    \/ ListingResponse
    \/ \E i \in Tasks : TaskStart(i)
    \/ \E i \in Tasks : TaskHead(i)
    \/ \E i \in Tasks : TaskResume(i)
    \/ \E i \in Tasks : TaskGet(i)
    \/ \E i \in Tasks : TaskChunk(i)
    \/ \E i \in Tasks : TaskBreak(i)
    \/ GatherDone
    \/ Rerun
    \/ ListStart
    \/ ListAnswer
    \/ FilesStart
    \/ FilesAnswer

Spec == Init /\ [][Next]_vars

\* ----------------------------------- download_fits.download_date_data_async
\* The standalone script.  Its coroutines are those of the API object but
\* for the HEAD probe, and it returns a bool.
ScriptResult(ok) == [NoResult EXCEPT !.kind = "bool", !.success = ok]

\* The listing answer arrives: False for an error, for no files and for a
\* negative width, or the per-file coroutines are created and gathered.
ScriptListingResponse ==
    /\ entry = "script"
    /\ pc = "listing"
    /\ IF listResp # "ok" \/ files = <<>> \/ SemaphoreRaises(maxConcurrent)
       THEN /\ result' = ScriptResult(FALSE)
            /\ pc' = "returned"
            /\ UNCHANGED tasks
       ELSE /\ sem' = maxConcurrent
            /\ waitq' = <<>>
            /\ tpc' = [i \in Tasks |-> "start"]
            /\ tchk' = [i \in Tasks |-> NoCheck]
            /\ tres' = [i \in Tasks |-> NoTaskResult]
            /\ offs' = [i \in Tasks |-> 0]
            /\ pc' = "gather"
            /\ result' = result
    /\ UNCHANGED <<args, env, lst, fs, fs0, dirExists, run, net, prev>>

\* client.head(url) with no raise_for_status: the content-length of a
\* non-2xx answer is read like that of a 2xx answer.
ScriptContentLength(n) == IF srv[n].head \in {"ok", "status"} THEN FileChunks ELSE 0

\* The script's check_file_exists once the HEAD answer is there.
ScriptProbeResult(n) ==
    IF srv[n].head = "fail" \/ ~fs[n].exists
    THEN [done |-> TRUE, skip |-> FALSE, reason |-> "could not verify"]
    ELSE IF SizeMatches(ScriptContentLength(n), fs[n].size)
    THEN [done |-> TRUE, skip |-> TRUE, reason |-> "already exists"]
    ELSE [done |-> TRUE, skip |-> FALSE, reason |-> "incomplete file"]

\* The HEAD answer arrives: skip (skipped_count += 1), or go for the gate.
ScriptTaskHead(i) ==
    /\ entry = "script"
    /\ pc = "gather"
    /\ AllStarted
    /\ tpc[i] = "head"
    /\ tchk' = [tchk EXCEPT ![i] = ScriptProbeResult(Name(i))]
    /\ IF ShouldSkip(ScriptProbeResult(Name(i)))
       THEN /\ tpc' = [tpc EXCEPT ![i] = "done"]
            /\ tres' = [tres EXCEPT ![i] = TaskTuple(TRUE, ScriptProbeResult(Name(i)).reason)]
            /\ UNCHANGED <<sem, waitq, net>>
       ELSE /\ Enter(i)
            /\ net' = IF SlotFree THEN [net EXCEPT !.get = @ + 1] ELSE net
            /\ tres' = tres
    /\ UNCHANGED <<args, env, lst, fs, fs0, dirExists, pc, run, offs, result, prev>>

\* gather, without return_exceptions, returns when every coroutine is done:
\* True when failed_count is 0.
ScriptGatherDone ==
    /\ entry = "script"
    /\ pc = "gather"
    /\ \A i \in Tasks : tpc[i] = "done" /\ tres[i].kind = "tuple"
    /\ result' = ScriptResult(Counts(tres).failed = 0)
    /\ pc' = "returned"
    /\ UNCHANGED <<args, env, lst, fs, fs0, dirExists, run, tasks, net, prev>>

\* gather raises the exception of a coroutine as soon as the main coroutine
\* runs again; the except block returns False and the coroutines that are
\* not done are left behind.
ScriptGatherRaises ==
    /\ entry = "script"
    /\ pc = "gather"
    /\ AllStarted
    /\ \E i \in Tasks : tres[i].kind = "exception"
    /\ result' = ScriptResult(FALSE)
    /\ pc' = "returned"
    /\ UNCHANGED <<args, env, lst, fs, fs0, dirExists, run, tasks, net, prev>>

\* One call of the script or of the API object, of width 1 or 2, against
\* the same servers and local directories; the listing names no file twice.
InitPair ==
    /\ files \in Listings(Names)
    /\ \A i, j \in 1..Len(files) : files[i] = files[j] => i = j
    /\ srv \in [Names -> [head : HeadAnswersByKind, get : GetAnswers]]
    /\ \A n \in Names : Unobserved(n) => srv[n] = Healthy
    /\ fs \in [Names -> LocalFiles]
    /\ \A n \in Names : Unobserved(n) => fs[n] = Absent
    /\ force \in BOOLEAN
    /\ \A n \in Names : force => srv[n].head = "ok"
    /\ mkdirOk = TRUE
    /\ listResp \in ListAnswers
    /\ listResp # "ok" => files = <<>>
    /\ entry \in {"script", "api"}
    /\ date = GoodDate
    /\ maxConcurrent \in {1, 2}
    /\ page = <<>>
    /\ baseResp = "ok"
    /\ InitState

NextPair ==
    \/ CallStart
    \/ ListingResponse
    \/ ScriptListingResponse
    \/ \E i \in Tasks : TaskStart(i)
    \/ \E i \in Tasks : TaskHead(i)
    \/ \E i \in Tasks : ScriptTaskHead(i)
    \/ \E i \in Tasks : TaskResume(i)
    \/ \E i \in Tasks : TaskGet(i)
    \/ \E i \in Tasks : TaskChunk(i)
    \/ \E i \in Tasks : TaskBreak(i)
    \/ GatherDone
    \/ ScriptGatherDone
    \/ ScriptGatherRaises

PairSpec == InitPair /\ [][NextPair]_vars

\* Every step of download_date_data and of its front end but the caller's
\* choice to call once more.  The event loop runs every coroutine that is
\* ready, and every request that was issued is answered, with a response or
\* with an error, or its body ends or breaks.
Progress ==
    \/ MainValidate
    \/ MainExit
    \/ CallStart
    \/ ListingResponse
    \/ \E i \in Tasks : TaskStart(i)
    \/ \E i \in Tasks : TaskHead(i)
    \/ \E i \in Tasks : TaskResume(i)
    \/ \E i \in Tasks : TaskGet(i)
    \/ \E i \in Tasks : TaskChunk(i)
    \/ \E i \in Tasks : TaskBreak(i)
    \/ GatherDone

\* The calls the progress of which is followed to their end: one call of
\* download_date_data, of width 1, 2 or 50 when well-formed, every local
\* file missing or complete, every HEAD answered with the length or with an
\* error.
InitLive ==
    /\ InitMirror \/ InitArgs
    /\ maxConcurrent \in {0 - 1, 0, 1, 2, 50}
    /\ \A n \in Names : fs[n] \in {Absent, File(FileChunks)}
    /\ \A n \in Names : srv[n].head \in {"ok", "fail"}

FairSpec == InitLive /\ [][Progress]_vars /\ WF_vars(Progress)
\* ================================================================ claims
\* A call with a date of 8 digits and a width of at least 1.
WellFormed == IsDate(date) /\ maxConcurrent >= 1

\* The call returned after it gathered the per-file coroutines' results or
\* failed to: the listing was fetched and is not empty.
ListedRun == WellFormed /\ pc = "returned" /\ listResp = "ok" /\ files # <<>>

\* The coroutines that are inside download_file.
InFlight == {i \in DOMAIN tpc : tpc[i] \in {"get", "write"}}

\* C1: with maxConcurrent >= 1, at most maxConcurrent download_file calls
\* are in flight in every reachable state.
C1_GateBound == maxConcurrent >= 1 => Cardinality(InFlight) <= maxConcurrent

\* The gate is full and a coroutine is kept waiting at it.
C1_Witness ==
    /\ maxConcurrent >= 1
    /\ Cardinality(InFlight) = maxConcurrent
    /\ \E i \in DOMAIN tpc : tpc[i] = "wait"

\* C2: when the listing was fetched and is not empty, the returned counts
\* add up to total, and total is the number of listed files.
C2_EveryFileCounted ==
    ListedRun =>
        /\ result.downloaded + result.skipped + result.failed = result.total
        /\ result.total = Len(files)

\* A file's pipeline failed: its fetch returned False or the coroutine raised.
FailedTasks ==
    {i \in DOMAIN tres :
        tres[i].kind = "exception" \/ (tres[i].kind = "tuple" /\ ~tres[i].success)}

\* C3: a failure in one file's pipeline, an exception included, is that
\* file's Failed outcome: the result still has total = number of listed
\* files and failed >= 1, with one outcome for every other file.
C3_FailureContained ==
    (ListedRun /\ FailedTasks # {}) =>
        /\ result.total = Len(files)
        /\ result.failed >= Cardinality(FailedTasks)
        /\ result.downloaded + result.skipped + result.failed = result.total

\* What each listed file's own answers and its local copy at the start of
\* the call decide, every existence check being done before any fetch has
\* written: the outcome of the run in which all HEAD answers come first.
RefFetches(n) ==
    force \/ ~fs0[n].exists \/ srv[n].head # "ok" \/ fs0[n].size # FileChunks

RefSkipped == {i \in 1..Len(files) : ~RefFetches(files[i])}
RefDownloaded == {i \in 1..Len(files) : RefFetches(files[i]) /\ srv[files[i]].get = "ok"}
RefFailed == {i \in 1..Len(files) : RefFetches(files[i]) /\ srv[files[i]].get # "ok"}

RefCounts ==
    IF BadName \in Range(files) THEN <<0, 0, 0, 0>>
    ELSE <<Cardinality(RefDownloaded), Cardinality(RefSkipped),
           Cardinality(RefFailed), Len(files)>>

ResultCounts == <<result.downloaded, result.skipped, result.failed, result.total>>

NoDuplicates == \A i, j \in 1..Len(files) : files[i] = files[j] => i = j

\* C4 as claimed: for every listing, the counts a call returns are fixed by
\* the listing, the server's answers and the starting directory alone, the
\* same for every width in {1, 2, 5, 50} and every interleaving.
C4_CountsFixed ==
    (ListedRun /\ maxConcurrent \in GateWidths) => ResultCounts = RefCounts

\* C4 amended: the same, for a listing that names no file twice.
C4_CountsFixedDistinct ==
    (ListedRun /\ maxConcurrent \in GateWidths /\ NoDuplicates)
        => ResultCounts = RefCounts

\* Two files went through a gate of width 1 and both were downloaded.
C4_Witness ==
    /\ ListedRun
    /\ NoDuplicates
    /\ maxConcurrent = 1
    /\ result.downloaded = 2

SecondRun == WellFormed /\ run = "second" /\ pc = "returned" /\ ~force

\* C5 as claimed: the second of two calls in succession with force = false
\* returns downloaded = 0 and skipped = total.
C5_Idempotent ==
    SecondRun => result.downloaded = 0 /\ result.skipped = result.total

\* C5 amended: when the first call returned success = true and the HEAD
\* answer of every listed file carries its length, the second call returns
\* downloaded = 0 and skipped = total = number of listed files.
C5_IdempotentVerified ==
    (SecondRun /\ prev.success /\ \A n \in Range(files) : srv[n].head = "ok")
        => /\ result.downloaded = 0
           /\ result.skipped = result.total
           /\ result.total = Len(files)

\* The first call downloaded a file and the second skipped every file.
C5_Witness ==
    /\ SecondRun
    /\ prev.success
    /\ prev.downloaded >= 1
    /\ \A n \in Range(files) : srv[n].head = "ok"
    /\ result.skipped = Len(files)
\* C6 as claimed: a call whose date is not exactly 8 decimal digits issues
\* no network request and creates no directory.
C6_BadDateNoIO ==
    (~IsDate(date) /\ run = "first") =>
        /\ net = NoNet
        /\ dirExists = (\E n \in Names : fs0[n].exists)

\* C7 as claimed: a call with maxConcurrent < 1 is rejected before any
\* network request and never starts per-file work.
C7_BadWidthRejected ==
    maxConcurrent < 1 => net = NoNet /\ tpc = <<>>

\* C8: a listing that was fetched and holds no file returns success = false,
\* all counts and total 0 and an error message, with no probe and no fetch.
C8_EmptyListing ==
    (pc = "returned" /\ listResp = "ok" /\ files = <<>>) =>
        /\ result.kind = "dict"
        /\ ~result.success
        /\ ResultCounts = <<0, 0, 0, 0>>
        /\ result.error # "none"
        /\ net.head = 0
        /\ net.get = 0

\* The listing was requested, came back empty, and the call returned.
C8_Witness ==
    /\ pc = "returned"
    /\ listResp = "ok"
    /\ files = <<>>
    /\ net.list = 1
    /\ result.error = "No FITS files found"

\* The three ways a call ends, and what the result of each looks like.
Systemic == ~mkdirOk \/ listResp # "ok"
FoundNothing == mkdirOk /\ listResp = "ok" /\ files = <<>>
SomeFileFailed == mkdirOk /\ listResp = "ok" /\ files # <<>> /\ FailedTasks # {}

SystemicShape(r) ==
    \/ r.kind = "raised"
    \/ r.kind = "dict" /\ r.error \notin {"none", "No FITS files found"}
FoundNothingShape(r) == r.kind = "dict" /\ r.error = "No FITS files found"
SomeFileFailedShape(r) == r.kind = "dict" /\ r.error = "none" /\ r.failed >= 1

\* C9 as claimed: a systemic failure, a run that found no files and a run
\* in which some files failed each end in a result of their own kind, so
\* that the caller can tell the three apart.
C9_ThreeTerminalStates ==
    (WellFormed /\ pc \in {"returned", "raised"}) =>
        /\ Systemic => SystemicShape(result)
        /\ FoundNothing => FoundNothingShape(result)
        /\ SomeFileFailed => SomeFileFailedShape(result)

\* The coroutines that called download_file.
Fetched ==
    {i \in DOMAIN tres :
        tres[i].kind = "tuple" /\ tres[i].reason \in {"downloaded", "failed"}}

\* The local copy the call found is not of the length the HEAD answer gives.
Mismatched(n) ==
    /\ srv[n].head # "fail"
    /\ fs0[n].size # (IF srv[n].head = "ok" THEN FileChunks ELSE 0)

AllMirrored == \A n \in Range(files) : fs[n] = File(FileChunks)

\* C10 as claimed: when the call returns success = true, every listed file
\* is there with the server's length, and every fetched file was missing,
\* of another size, or forced.
C10_MirroredMinimal ==
    (pc = "returned" /\ result.success) =>
        /\ AllMirrored
        /\ \A i \in Fetched :
              \/ force
              \/ ~fs0[files[i]].exists
              \/ Mismatched(files[i])

\* C10 amended: ... and every fetched file was missing, forced, of another
\* size, or its HEAD probe failed or carried no length.
C10_MirroredUnverified ==
    (pc = "returned" /\ result.success) =>
        /\ AllMirrored
        /\ \A i \in Fetched :
              \/ force
              \/ ~fs0[files[i]].exists
              \/ fs0[files[i]].size # FileChunks
              \/ srv[files[i]].head # "ok"

\* A successful call that fetched one file and skipped a complete one.
C10_Witness ==
    /\ pc = "returned"
    /\ result.success
    /\ ~force
    /\ result.downloaded >= 1
    /\ result.skipped >= 1
    /\ AllMirrored

\* The coroutines that have called download_file.
FetchCalled == {i \in DOMAIN tpc : tpc[i] \in {"get", "write"}} \cup Fetched

\* The coroutines whose check_file_exists returned skip = true.
SkipChecked == {i \in DOMAIN tchk : tchk[i].skip}

\* The file of coroutine i is fetched by no coroutine and is as the call
\* found it.
Untouched(i) ==
    /\ \A j \in FetchCalled : files[j] # files[i]
    /\ fs[files[i]] = fs0[files[i]]

\* C11 as claimed: in every reachable state, a listed file whose check
\* returned skip = true has not been fetched during the call and is as the
\* call found it.
C11_SkippedUntouched == \A i \in SkipChecked : Untouched(i)

\* C11 amended: the coroutine whose check returned skip = true ends with the
\* "already exists" tuple and never calls download_file; when the listing
\* names no file twice, no coroutine fetches that file during the call and
\* the file is as the call found it.
C11_SkippedUntouchedDistinct ==
    \A i \in SkipChecked :
        /\ tpc[i] = "done"
        /\ tres[i] = TaskTuple(TRUE, "already exists")
        /\ offs[i] = 0
        /\ i \notin FetchCalled
        /\ NoDuplicates => Untouched(i)

\* A file is skipped while another file of the same listing is downloaded.
C11_Witness ==
    /\ pc = "returned"
    /\ NoDuplicates
    /\ \E i \in SkipChecked : \E j \in Fetched : tres[j].success /\ Untouched(i)

\* The call found a local copy of n whose size is not the length the HEAD
\* answer declares.
WrongSize(n) ==
    /\ n \in GoodNames
    /\ fs0[n].exists
    /\ srv[n].head = "ok"
    /\ fs0[n].size # FileChunks

\* C12: when a call without force returns, every listed file it found with
\* a size other than the declared length has been fetched, and where that
\* fetch succeeded the file has exactly the declared length.
C12_WrongSizeRefetched ==
    (ListedRun /\ ~force) =>
        \A n \in Range(files) :
            WrongSize(n) =>
                /\ \E j \in Fetched : files[j] = n
                /\ \A j \in Fetched :
                       (files[j] = n /\ tres[j].success) => fs[n] = File(FileChunks)

\* A local copy longer than the server's file was fetched again and now has
\* the server's length.
C12_Witness ==
    /\ ListedRun
    /\ ~force
    /\ \E j \in Fetched :
           /\ WrongSize(files[j])
           /\ fs0[files[j]].size > FileChunks
           /\ tres[j].success
           /\ fs[files[j]] = File(FileChunks)

\* check_file_exists of coroutine i returns on this step.
CheckReturns(i) == ~tchk[i].done /\ tchk'[i].done

\* The conditions under which the check is to say skip, on the file as it
\* is when the check returns.
SkipDue(n) ==
    /\ ~force
    /\ fs[n].exists
    /\ srv[n].head = "ok"
    /\ ContentLength(n) > 0
    /\ fs[n].size = ContentLength(n)

ProbeFailed(i) ==
    /\ tchk[i].done
    /\ ~force
    /\ files[i] \in GoodNames
    /\ fs0[files[i]].exists
    /\ srv[files[i]].head \in {"fail", "nolen"}

\* C14: a check whose HEAD probe failed returns skip = false with a reason
\* and does not raise; its coroutine goes on to the gate and the fetch, and
\* its outcome is a failure only when the GET of the fetch fails.
C14_ProbeFailureRefetches ==
    \A i \in DOMAIN tchk :
        ProbeFailed(i) =>
            /\ ~tchk[i].skip
            /\ tchk[i].reason \in {"could not verify", "incomplete file"}
            /\ tres[i].kind # "exception"
            /\ tpc[i] \in {"wait", "granted", "get", "write", "done"}
            /\ tpc[i] = "done" =>
                   /\ i \in Fetched
                   /\ tres[i].success <=> srv[files[i]].get = "ok"

\* After a failed probe the file was downloaded and the call reports no
\* failure.
C14_Witness ==
    /\ pc = "returned"
    /\ result.failed = 0
    /\ result.downloaded > 0
    /\ \E i \in DOMAIN tchk :
           /\ ProbeFailed(i)
           /\ srv[files[i]].head = "fail"
           /\ tres[i] = TaskTuple(TRUE, "downloaded")

\* No two of the coroutines that have called download_file have the same
\* local path.
OnePathEach == \A i, j \in FetchCalled : Name(i) = Name(j) => i = j

C16_SuccessIffNoFailure == ListedRun => (result.success <=> result.failed = 0)

\* The href is 8 digits followed by nothing but slashes, at least one.
NamesADay(h) ==
    /\ Len(h) > 8
    /\ IsDate(SubSeq(h, 1, 8))
    /\ \A k \in 9..Len(h) : h[k] = Slash

\* The page at base_url lists no day inside its first <pre> block.
NoDayListed == \A k \in 1..Len(page) : ~(page[k].pre /\ NamesADay(page[k].href))

ListEnded == pc \in {"list_returned", "list_raised"}

\* C17: when list_available_days ends, a transport error or a non-2xx
\* answer to the request for base_url has been raised to the caller, not
\* returned as a list; the empty list is returned only when the page was
\* fetched and lists no day.
C17_ListFailureRaised ==
    ListEnded =>
        /\ baseResp # "ok" => (pc = "list_raised" /\ dates.kind = "raised")
        /\ baseResp = "ok" => (pc = "list_returned" /\ dates.kind = "list")
        /\ (dates.kind = "list" /\ dates.value = <<>>) => (baseResp = "ok" /\ NoDayListed)

\* The server answers the request for a page that lists a day with a
\* non-2xx status, and the call has raised.
C17_Witness ==
    /\ pc = "list_raised"
    /\ baseResp = "status_error"
    /\ ~NoDayListed
    /\ dates.error = "Exception"

\* C18: when outputDir/date/ cannot be created, the call ends at once with
\* one error, the OSError of mkdir: it has issued no listing request, no
\* HEAD and no GET, has created no per-file coroutine and counts no file as
\* failed, and the local directory is as it was.
C18_MkdirFailureAborts ==
    (entry # "list" /\ ~mkdirOk /\ pc # "call") =>
        /\ pc = "raised"
        /\ result.kind = "raised"
        /\ result.error = "OSError"
        /\ result.failed = 0
        /\ net = NoNet
        /\ tpc = <<>>
        /\ tres = <<>>
        /\ fs = fs0
        /\ ~dirExists

\* The call has ended on the failing mkdir.
C18_Witness == ~mkdirOk /\ pc = "raised" /\ result.error = "OSError" /\ net.list = 0

\* The GET of coroutine i is answered with a non-2xx status on this step.
StatusAnswered(i) ==
    /\ tpc[i] = "get"
    /\ srv[files[i]].get = "status"
    /\ tpc'[i] # "get"

\* C19: on the step on which download_file gets a non-2xx answer to its
\* GET it returns False and the local directory is the same after the step
\* as before: a missing file is not created, an existing one keeps its
\* size.
C19_StatusLeavesFile ==
    [][\A i \in DOMAIN tpc :
          StatusAnswered(i) =>
              /\ fs' = fs
              /\ tpc'[i] = "done"
              /\ tres'[i] = TaskTuple(FALSE, "failed")]_vars

\* A fetch that got a non-2xx answer has failed, and the longer local copy
\* the call found is still there.
C19_Witness ==
    \E i \in Fetched :
        /\ srv[files[i]].get = "status"
        /\ ~tres[i].success
        /\ fs0[files[i]] = File(FileChunks + 1)
        /\ fs[files[i]] = fs0[files[i]]

\* Coroutine i went past its check to download_file and download_file has
\* returned.
FetchReturned(i) == tchk[i].done /\ ~tchk[i].skip /\ tpc[i] = "done"

\* C20: download_file has returned True only after a 2xx answer whose whole
\* body was written; after a non-2xx answer or a broken body it has returned
\* False, and in no case has the coroutine ended with an exception.
C20_TrueOnlyWhenWritten ==
    \A i \in DOMAIN tpc :
        FetchReturned(i) =>
            /\ tres[i].kind = "tuple"
            /\ tres[i].reason \in {"downloaded", "failed"}
            /\ tres[i].success <=> (srv[files[i]].get = "ok" /\ offs[i] = FileChunks)
            /\ srv[files[i]].get # "ok" => tres[i] = TaskTuple(FALSE, "failed")

\* A fetch whose body broke has returned False after it had opened the file,
\* while the call goes on.
C20_Witness ==
    /\ pc = "gather"
    /\ \E i \in DOMAIN tpc :
           /\ FetchReturned(i)
           /\ srv[files[i]].get = "broken"
           /\ tres[i] = TaskTuple(FALSE, "failed")
           /\ fs[files[i]].exists
           /\ fs[files[i]].size < FileChunks

\* The positions of the page whose anchor is inside the first <pre> block
\* and whose href ends with the five characters ".fits".
FitsAt ==
    {k \in 1..Len(page) :
        /\ page[k].pre
        /\ Len(page[k].href) >= 5
        /\ \A m \in 1..5 : page[k].href[Len(page[k].href) - 5 + m] = FitsSuffix[m]}

\* The j-th of those positions, in document order.
NthFitsAt(j) == CHOOSE k \in FitsAt : Cardinality({m \in FitsAt : m <= k}) = j

\* C21: when get_files_for_date returns for a fetched page, it returns a
\* list (no error) of exactly the hrefs of the first <pre> block that end
\* in .fits, one per such anchor, in document order; the list is empty when
\* the page has no such anchor.
C21_FilesInOrder ==
    (pc \in {"files_returned", "files_raised"} /\ baseResp = "ok") =>
        /\ pc = "files_returned"
        /\ dates.kind = "list"
        /\ Len(dates.value) = Cardinality(FitsAt)
        /\ \A j \in 1..Len(dates.value) : dates.value[j] = page[NthFitsAt(j)].href

\* b.fits and a.fits are returned in the order of the page, not sorted.
C21_Witness ==
    /\ pc = "files_returned"
    /\ dates.value = <<OtherFitsLink, FitsLink>>
    /\ \A k \in 1..Len(page) : page[k].pre

\* a comes before b, or is b, in the order of the characters' code points.
LexLeq(a, b) ==
    \/ a = b
    \/ \E k \in 1..Len(a) :
           /\ k <= Len(b)
           /\ SubSeq(a, 1, k - 1) = SubSeq(b, 1, k - 1)
           /\ DigitVal(a[k]) < DigitVal(b[k])

\* The anchors of the first <pre> block of the form <8 decimal digits>/.
DayAnchors ==
    {k \in 1..Len(page) :
        /\ page[k].pre
        /\ Len(page[k].href) = 9
        /\ IsDate(SubSeq(page[k].href, 1, 8))
        /\ page[k].href[9] = Slash}

\* C22: the list list_available_days returns for a fetched page is in
\* ascending order, every name in it is 8 decimal digits, the parent link
\* is not in it, and the name of every anchor of the first <pre> block of
\* the form <8 digits>/ is in it.
C22_DaysSortedDecimal ==
    (pc = "list_returned" /\ baseResp = "ok") =>
        /\ \A j \in 1..(Len(dates.value) - 1) : LexLeq(dates.value[j], dates.value[j + 1])
        /\ \A j \in 1..Len(dates.value) : IsDate(dates.value[j])
        /\ \A j \in 1..Len(dates.value) : dates.value[j] \notin {ParentLink, <<".", ".">>}
        /\ \A k \in DayAnchors : \E j \in 1..Len(dates.value) :
               dates.value[j] = SubSeq(page[k].href, 1, 8)

\* The coroutines that hold a slot of the gate.
Holders == {i \in DOMAIN tpc : tpc[i] \in {"granted", "get", "write"}}

\* C23: a coroutine whose check said skip is done at once and is never at
\* the gate, neither waiting nor holding a slot; a coroutine that has not
\* finished its check is not at the gate either; every coroutine at the gate
\* went past its check without skip, and the slots taken are exactly those
\* of the coroutines on their way through download_file.
C23_SkipOutsideGate ==
    /\ \A i \in DOMAIN tpc :
           /\ tchk[i].skip => (tpc[i] = "done" /\ i \notin Range(waitq) /\ i \notin Holders)
           /\ tpc[i] \in {"start", "head"} => (~tchk[i].done /\ i \notin Range(waitq))
           /\ tpc[i] \in {"wait", "granted", "get", "write"} => (tchk[i].done /\ ~tchk[i].skip)
           /\ tpc[i] = "wait" <=> i \in Range(waitq)
    /\ tpc # <<>> => sem + Cardinality(Holders) = maxConcurrent

\* A file has been skipped while the gate is full: every slot is held by a
\* fetch in flight and no coroutine has left the gate yet.
C23_Witness ==
    /\ pc = "gather"
    /\ sem = 0
    /\ Cardinality(InFlight) = maxConcurrent
    /\ \A i \in DOMAIN tpc : tpc[i] = "done" => tchk[i].skip
    /\ \E i \in DOMAIN tpc : tchk[i].skip /\ tres[i] = TaskTuple(TRUE, "already exists")

\* download_date_data has ended, every coroutine is done and the gate is as
\* it was made: no slot held, no coroutine waiting.
EndedGateFree ==
    /\ pc \in {"returned", "raised", "exit0", "exit1"}
    /\ result.kind # "none"
    /\ \A i \in DOMAIN tpc : tpc[i] = "done"
    /\ Holders = {}
    /\ waitq = <<>>
    /\ tpc # <<>> => sem = maxConcurrent

\* download_date_data has been called and has not ended.
Underway == pc \in {"call", "listing", "gather"}

\* C24: with max_concurrent >= 1, when every ready coroutine runs and every
\* request is answered, every state of a call of download_date_data that
\* is under way (with fetches holding slots, or waiting for one, or not)
\* leads to the end of the call with a result, every coroutine done and no
\* slot of the gate held.
C24_EndsGateFree == (Underway /\ maxConcurrent >= 1) ~> EndedGateFree

\* The call has ended with the gate free after one fetch failed and another,
\* which had to wait for the slot, succeeded.
C24_Witness ==
    /\ EndedGateFree
    /\ maxConcurrent = 1
    /\ \E i, j \in Fetched : i < j /\ ~tres[i].success /\ tres[j].success

\* What the API object does with the same date, server and local directory,
\* for a listing that names no file twice: it fetches the files of
\* RefFetches, and its success field is true when the listing was fetched,
\* names a file, no href makes urljoin raise and no GET of a fetched file
\* fails.
ApiSuccess ==
    /\ listResp = "ok"
    /\ files # <<>>
    /\ BadName \notin Range(files)
    /\ \A n \in Range(files) : RefFetches(n) => srv[n].get = "ok"

\* C25: for the same date, server answers and local directory, the script
\* and the API object decide skip or fetch alike for every file, and the
\* bool the script returns is the success field the API object returns.
C25_ScriptAgrees ==
    /\ \A i \in DOMAIN tchk : tchk[i].done => (tchk[i].skip <=> ~RefFetches(files[i]))
    /\ pc = "returned" => result.success = ApiSuccess

====
